---------------------------- MODULE Spec2Model ----------------------------
(***************************************************************************)
(* The CUBIC congestion controller of picoquic (src/picoquic/cubic.c) as a *)
(* state machine: one path, its congestion window and its controller       *)
(* state, driven by init / notify / delete calls of the transport (Spec).  *)
(* Further specifications follow parts of the program on their own:        *)
(*  - SpecLossRun: the same path under a long run of timeouts;             *)
(*  - SpecScaling: Beta and BetaLastMax over a range of stream counts;     *)
(*  - SpecRunner:  main() of picoquic_t called with a list of test names;  *)
(*  - SpecPair:    two paths of one process, which share kCubeFactor;      *)
(*  - SpecRelay:   the exchange with the RStats relay (collectagent.cpp)   *)
(*                 made by picoquic_cubic_init and by the six commands.    *)
(*                                                                         *)
(* Arithmetic is modelled as the C code computes it on an x86-64 build:    *)
(*  - float expressions are IEEE-754 binary32, rounded to nearest-even     *)
(*    after every operation (FInt, FAdd, FSub, FMul, FDiv, FToU64);        *)
(*  - the 64-bit unsigned product of the cubic delta wraps modulo 2^64     *)
(*    (U64 limbs, MulSmall, Shr40);                                        *)
(*  - an unsigned value that wrapped below zero is kept as its negative    *)
(*    residue (x < 0 stands for 2^64 + x) and compared with U64Gt.         *)
(*  - a division by a stream count of 0 or by a zero window gives an       *)
(*    infinity or a NaN (FNonFinite); its conversion to uint64_t is        *)
(*    undefined and yields any value of UndefinedU64Set.                   *)
(***************************************************************************)
EXTENDS Integers, Sequences, FiniteSets, TLC

VARIABLES
    cwin,          \* path_x->cwin
    cu_state,      \* *path_x->congestion_alg_state, or NULL
    kCubeFactor,   \* the file-scope static set by init
    now,           \* the transport's clock: the last current_time delivered
    last,          \* the last call and the path fields it was made with
    prev,          \* cwin and cu_state as that call found them
    ackedSinceInit,\* bytes acknowledged since init and before any loss
    heap,          \* controller records: malloc'ed so far, free'd so far,
                   \* and whether the last malloc returned NULL
    undefinedSeen, \* a call since init converted an infinity or a NaN
    epochAcks,     \* cubic updates since the last loss, application-limited
                   \* acknowledgement, init or delete (counted up to 2)
    nCalls,        \* number of calls made so far
    \* the scaling factors as functions of the stream count
    total_stream_count,  \* *(path_x->total_stream_count)
    scaling,             \* what Beta and BetaLastMax returned for it
    \* picoquic_t: main() running the tests named on the command line
    argv,          \* the arguments from optind on
    arg_num,       \* index of the next argument (1 stands for optind)
    nb_test_tried,
    nb_test_failed,
    ret,
    executed,      \* the test numbers handed to do_one_test, in order
    mainPc,        \* where main() stands
    \* collectagent: the client of the RStats relay
    relay,         \* what the relay does with a datagram
    caller,        \* the function that is inside rstats_messager
    telPc,         \* where that function stands
    datagram,      \* the reply the relay sent to the last message
    data,          \* the bytes of char data[2048] from its start to the
                   \* first NUL after the bytes written so far
    result,        \* the string the last command returned
    error,         \* the asio error of the last rstats_messager call
    registered,    \* what the last register_collect returned
    rstats_connection_id,
    \* two paths driven by one process
    paths,         \* cwin and congestion_alg_state of each path
    alone,         \* the same paths, each one run in a process of its own
    factorWriter,  \* the path whose init stored kCubeFactor last (0: none)
    foreignRead    \* an epoch start read kCubeFactor as the other path's
                   \* init stored it

\* One path and its controller
ctlVars == <<cwin, cu_state, kCubeFactor, now, last, prev, ackedSinceInit,
             heap, undefinedSeen, epochAcks>>
scalingVars == <<total_stream_count, scaling>>
runnerVars == <<argv, arg_num, nb_test_tried, nb_test_failed, ret, executed,
                mainPc>>
relayVars == <<relay, caller, telPc, datagram, data, result, error,
               registered, rstats_connection_id>>
pairVars == <<paths, alone, factorWriter, foreignRead>>

vars == <<ctlVars, nCalls, scalingVars, runnerVars, relayVars, pairVars>>

-----------------------------------------------------------------------------
(* Bounds of the model *)

\* Number of init / notify / delete calls in a run.
MaxCalls == 4

\* nb_bytes_acknowledged values delivered with an acknowledgement.
AckedSet == {1500, 30000}
\* In slow start an acknowledgement may also stand for a long run of
\* acknowledged packets (1576 of 1500 bytes), which takes the window to
\* some megabytes.
SlowStartAckedSet == AckedSet \cup {2364000}
\* *(path_x->total_stream_count) values; no stream is open yet when the
\* count is 0.
StreamSet == {0, 1, 4}
\* Time elapsed between two notifications (usec); the clock never goes back.
\* 13389 usec after an epoch start with rtt_min = 20000 puts the elapsed
\* time at 33389, where 410 * offset^3 * 1460 passes 2^64.
DtSet == {0, 13389}
\* The clock when the path is created (usec).
NowInit == 100000
\* The stream counts the scaling factors are computed for: 1 up to this.
MaxStreamCount == 8193
\* The longest list of test names on the command line of the test runner.
MaxArgs == 3
\* The names given there: two names of the table and one that is not in it.
ArgNameSet == {"picohash", "cnxcreation", "no_such_test"}
\* Number of calls made on the two paths of a process.
MaxPairCalls == 4
\* Number of calls in a run of consecutive timeouts: 0.7 takes the initial
\* window to 0 in 25 cuts.
MaxLossRun == 30
\* path_x->rtt_min values (usec): below the time to the curve's origin, a
\* usual one, equal to the clock and above the clock.
RttSet == {1000, 20000, NowInit, NowInit + 20000}

-----------------------------------------------------------------------------
(* Program constants *)

DEFAULT_TCP_MSS == 1460
MICROSEC_PER_SEC == 1000000
kCubeScale == 40
kCubeCongestionWindowScale == 410
\* collectagent.cpp: char data[2048] of rstats_messager
DataSize == 2048
\* picoquic_internal.h: 10 * PICOQUIC_MAX_PACKET_SIZE (1536)
PICOQUIC_CWIN_INITIAL == 15360

\* A null congestion_alg_state: no controller record behind the pointer
NULL == [null |-> TRUE]
slow_start == "slow_start"
congestion_avoidance == "congestion_avoidance"

Acknowledgement == "acknowledgement"
Repeat == "repeat"
Timeout == "timeout"
SpuriousRepeat == "spurious_repeat"
RttMeasurement == "rtt_measurement"
Unknown == "unknown"

-----------------------------------------------------------------------------
(* IEEE-754 binary32 values >= 0: <<m, e>> stands for m * 2^e, with        *)
(* m = 0 or 2^23 <= m < 2^24.  FNonFinite stands for an infinity or a NaN: *)
(* the code only ever converts such a value to uint64_t, which is          *)
(* undefined whichever of them it is.                                      *)

FNonFinite == <<-1, 0>>
IsFinite(f) == f[1] >= 0

RECURSIVE BitLen(_)
BitLen(x) == IF x = 0 THEN 0 ELSE 1 + BitLen(x \div 2)

\* m * 2^e (+ something in (0,1) * 2^e when sticky) rounded to 24 bits,
\* nearest, ties to even.  With sticky, m must hold at least 25 bits.
FRound(m, e, sticky) ==
    IF m = 0 THEN <<0, 0>>
    ELSE LET k == BitLen(m) - 24 IN
         IF k <= 0 THEN <<m * 2^(-k), e + k>>
         ELSE LET q    == m \div 2^k
                  r    == m % 2^k
                  half == 2^(k-1)
                  up   == r > half \/ (r = half /\ (sticky \/ q % 2 = 1))
                  q1   == IF up THEN q + 1 ELSE q
              IN IF q1 = 16777216 THEN <<8388608, e + k + 1>> ELSE <<q1, e + k>>

\* (float) x for an integer 0 <= x < 2^31
FInt(x) == FRound(x, 0, FALSE)

FAddOrdered(a, b) ==  \* a[2] >= b[2], both non-zero
    LET d  == a[2] - b[2]
        A  == a[1] * 64
        B0 == b[1] * 64
        B  == IF d > 30 THEN 0 ELSE B0 \div 2^d
        st == IF d > 30 THEN TRUE ELSE B0 % 2^d # 0
    IN FRound(A + B, a[2] - 6, st)

FAdd(a, b) ==
    IF ~IsFinite(a) \/ ~IsFinite(b) THEN FNonFinite
    ELSE IF a[1] = 0 THEN b
    ELSE IF b[1] = 0 THEN a
    ELSE IF a[2] >= b[2] THEN FAddOrdered(a, b) ELSE FAddOrdered(b, a)

\* a - b for a >= b
FSub(a, b) ==
    IF ~IsFinite(a) \/ ~IsFinite(b) THEN FNonFinite
    ELSE IF b[1] = 0 THEN a
    ELSE LET d  == a[2] - b[2]
             A  == a[1] * 64
             B0 == b[1] * 64
             B  == IF d > 30 THEN 0 ELSE B0 \div 2^d
             st == IF d > 30 THEN TRUE ELSE B0 % 2^d # 0
         IN IF st THEN FRound(A - B - 1, a[2] - 6, TRUE)
                  ELSE FRound(A - B, a[2] - 6, FALSE)

FMul(a, b) ==
    IF ~IsFinite(a) \/ ~IsFinite(b) THEN FNonFinite
    ELSE IF a[1] = 0 \/ b[1] = 0 THEN <<0, 0>>
    ELSE LET a1  == a[1] \div 4096
             a0  == a[1] % 4096
             b1  == b[1] \div 4096
             b0  == b[1] % 4096
             lo  == a0 * b0
             mid == a1 * b0 + a0 * b1 + lo \div 4096
             d0  == lo % 4096
             d1  == mid % 4096
             top == a1 * b1 + mid \div 4096
         IN FRound(top * 64 + d1 \div 64, a[2] + b[2] + 18,
                   d1 % 64 # 0 \/ d0 # 0)

RECURSIVE FDivStep(_, _, _, _)
FDivStep(q, r, den, steps) ==
    IF steps = 0 THEN <<q, r>>
    ELSE FDivStep(q * 128 + (r * 128) \div den, (r * 128) % den, den, steps - 1)

\* a / b.  A division by zero gives an infinity or (0 / 0) a NaN; a
\* non-finite divisor only occurs under a non-finite dividend.
FDiv(a, b) ==
    IF ~IsFinite(a) \/ ~IsFinite(b) \/ b[1] = 0 THEN FNonFinite
    ELSE IF a[1] = 0 THEN <<0, 0>>
    ELSE LET qr == FDivStep(a[1] \div b[1], a[1] % b[1], b[1], 4)
         IN FRound(qr[1], a[2] - b[2] - 28, qr[2] # 0)

\* The conversion of an infinity or a NaN to uint64_t is undefined.  A
\* saturating conversion gives 0 for a negative infinity or a NaN; the
\* x86-64 conversion sequence gives 2^63, which is represented here by a
\* value above every window the controller computes within the bounds.
UndefinedU64Set == {0, 2^22}

\* (uint64_t) f: the fraction is dropped; u is what the build produces when
\* the conversion is undefined
FToU64(f, u) ==
    IF ~IsFinite(f) THEN u
    ELSE IF f[2] >= 0 THEN f[1] * 2^(f[2])
    ELSE IF f[2] <= -24 THEN 0
    ELSE f[1] \div 2^(-f[2])

kBeta == <<11744051, -24>>          \* 0.7f
kBetaLastMax == <<14260634, -24>>   \* 0.85f

-----------------------------------------------------------------------------
(* uint64_t products: eight little-endian limbs of 8 bits *)

ToLimbs(x) ==
    [i \in 1..8 |-> IF i = 1 THEN x % 256
                    ELSE IF i = 2 THEN (x \div 256) % 256
                    ELSE IF i = 3 THEN (x \div 65536) % 256
                    ELSE IF i = 4 THEN x \div 16777216
                    ELSE 0]

RECURSIVE MulCarry(_, _, _, _)
MulCarry(L, m, i, c) ==
    IF i > 8 THEN <<>>
    ELSE LET t == L[i] * m + c
         IN <<t % 256>> \o MulCarry(L, m, i + 1, t \div 256)

\* L * m modulo 2^64, for 0 <= m < 2^23
MulSmall(L, m) == MulCarry(L, m, 1, 0)

\* L >> 40
Shr40(L) == L[6] + 256 * L[7] + 65536 * L[8]

RECURSIVE LimbsLeqFrom(_, _, _)
LimbsLeqFrom(A, B, i) ==
    IF i = 0 THEN TRUE
    ELSE IF A[i] < B[i] THEN TRUE
    ELSE IF A[i] > B[i] THEN FALSE
    ELSE LimbsLeqFrom(A, B, i - 1)

LimbsLeq(A, B) == LimbsLeqFrom(A, B, 8)

Cube(k) == MulSmall(MulSmall(ToLimbs(k), k), k)

RECURSIVE CbrtSearch(_, _, _)
CbrtSearch(lo, hi, X) ==   \* Cube(lo) <= X < Cube(hi)
    IF hi - lo <= 1 THEN lo
    ELSE LET mid == (lo + hi) \div 2
         IN IF LimbsLeq(Cube(mid), X) THEN CbrtSearch(mid, hi, X)
                                      ELSE CbrtSearch(lo, mid, X)

\* (uint64_t) cbrt(f * d) for f * d < 2^54
CbrtOfProduct(f, d) == CbrtSearch(0, 262144, MulSmall(ToLimbs(d), f))

\* x > y on uint64_t, where a negative x stands for 2^64 + x
U64Gt(x, y) == IF x < 0 THEN (y >= 0 \/ x > y) ELSE (y >= 0 /\ x > y)

-----------------------------------------------------------------------------
(* The controller *)

\* picoquic_cubic_state_t as picoquic_cubic_init fills it
InitialState ==
    [alg_state         |-> slow_start,
     epoch_start_time  |-> 0,
     estimated_nr_cwnd |-> 0,
     last_max_cwnd     |-> 0,
     time_of_origin    |-> 0,
     origin_cwnd       |-> 0,
     last_target_cwnd  |-> 0]

\* (UINT64_C(1) << kCubeScale) / kCubeCongestionWindowScale / DEFAULT_TCP_MSS.
\* 2^40 is written 2^20 * 2^20 and each division is carried out in two
\* steps on 20-bit halves.
CubeFactorValue ==
    LET half == 2^(kCubeScale \div 2)
        hi   == half \div kCubeCongestionWindowScale
        lo   == ((half % kCubeCongestionWindowScale) * half)
                    \div kCubeCongestionWindowScale
    IN (hi \div DEFAULT_TCP_MSS) * half
       + ((hi % DEFAULT_TCP_MSS) * half + lo) \div DEFAULT_TCP_MSS

\* A window backoff that adds the constant to the whole count
Beta_WithoutMinusOne(n) ==
    IF n = 0 THEN FNonFinite
    ELSE FDiv(FAdd(FInt(n), kBeta), FInt(n))

\* (n - 1 + kBeta) / n; with a count of 0 this is a non-zero value divided
\* by zero, an infinity
Beta(n) ==
    IF n = 0 THEN FNonFinite
    ELSE FDiv(FAdd(FInt(n - 1), kBeta), FInt(n))

\* 3 * n * n * (1 - beta) / (1 - beta)
Alpha(n) ==
    LET beta == Beta(n)
        omb  == FSub(FInt(1), beta)
    IN FDiv(FMul(FInt(3 * n * n), omb), omb)

\* A W_max backoff computed with the window backoff constant
BetaLastMax_UsesBeta(n) ==
    IF n = 0 THEN FNonFinite
    ELSE FDiv(FAdd(FInt(n - 1), kBeta), FInt(n))

\* (n - 1 + kBetaLastMax) / n; an infinity with a count of 0
BetaLastMax(n) ==
    IF n = 0 THEN FNonFinite
    ELSE FDiv(FAdd(FInt(n - 1), kBetaLastMax), FInt(n))

\* A loss handler that leaves the epoch running
process_loss_NoEpochReset(cw, cu, n, u) ==
    LET lm == IF cw + DEFAULT_TCP_MSS < cu.last_max_cwnd
              THEN FToU64(FMul(BetaLastMax(n), FInt(cw)), u)
              ELSE cw
    IN <<FToU64(FMul(FInt(cw), Beta(n)), u), [cu EXCEPT !.last_max_cwnd = lm]>>

\* A loss handler that records W_max after the window was cut
process_loss_LastMaxAfterDecrease(cw, cu, n, u) ==
    LET cut == FToU64(FMul(FInt(cw), Beta(n)), u)
        lm  == IF cut + DEFAULT_TCP_MSS < cu.last_max_cwnd
               THEN FToU64(FMul(BetaLastMax(n), FInt(cut)), u)
               ELSE cut
    IN <<cut, [cu EXCEPT !.last_max_cwnd = lm, !.epoch_start_time = 0]>>

\* A loss handler that scales the window by the W_max backoff and W_max
\* by the window backoff
process_loss_SwappedFactors(cw, cu, n, u) ==
    LET lm == IF cw + DEFAULT_TCP_MSS < cu.last_max_cwnd
              THEN FToU64(FMul(Beta(n), FInt(cw)), u)
              ELSE cw
    IN <<FToU64(FMul(FInt(cw), BetaLastMax(n)), u),
         [cu EXCEPT !.last_max_cwnd = lm, !.epoch_start_time = 0]>>

\* picoquic_cubic_process_loss: the new <<cwin, cu_state>>
picoquic_cubic_process_loss(cw, cu, n, u) ==
    LET lm == IF cw + DEFAULT_TCP_MSS < cu.last_max_cwnd
              THEN FToU64(FMul(BetaLastMax(n), FInt(cw)), u)
              ELSE cw
    IN <<FToU64(FMul(FInt(cw), Beta(n)), u),
         [cu EXCEPT !.last_max_cwnd = lm, !.epoch_start_time = 0]>>

\* An epoch start that takes the time of the acknowledgement itself as the
\* start of the epoch
StartEpoch_NotBackdated(cw, cu, rtt, t, kcf) ==
    IF cu.epoch_start_time # 0 THEN cu
    ELSE IF cu.last_max_cwnd <= cw
    THEN [cu EXCEPT !.epoch_start_time  = t,
                    !.estimated_nr_cwnd = cw,
                    !.time_of_origin    = 0,
                    !.origin_cwnd       = cw]
    ELSE [cu EXCEPT !.epoch_start_time  = t,
                    !.estimated_nr_cwnd = cw,
                    !.time_of_origin    = CbrtOfProduct(kcf, cu.last_max_cwnd - cw),
                    !.origin_cwnd       = cu.last_max_cwnd]

\* The epoch start of picoquic_cubic_process_ack (lines 195-215)
StartEpoch(cw, cu, rtt, t, kcf) ==
    IF cu.epoch_start_time # 0 THEN cu
    ELSE IF cu.last_max_cwnd <= cw
    THEN [cu EXCEPT !.epoch_start_time  = t - rtt,
                    !.estimated_nr_cwnd = cw,
                    !.time_of_origin    = 0,
                    !.origin_cwnd       = cw]
    ELSE [cu EXCEPT !.epoch_start_time  = t - rtt,
                    !.estimated_nr_cwnd = cw,
                    !.time_of_origin    = CbrtOfProduct(kcf, cu.last_max_cwnd - cw),
                    !.origin_cwnd       = cu.last_max_cwnd]

\* (current_time - epoch_start_time) << 10 / MICROSEC_PER_SEC: the division
\* binds first, so the shift count is 10 / MICROSEC_PER_SEC
ElapsedTime(t, epoch) == (t - epoch) * 2^(10 \div MICROSEC_PER_SEC)

\* abs(): |x|, for x within int
Abs(x) == IF x < 0 THEN -x ELSE x

\* (kCubeCongestionWindowScale * offset^3 * DEFAULT_TCP_MSS) >> kCubeScale
\* on uint64_t
DeltaCongestionWindow(offset) ==
    Shr40(MulSmall(MulSmall(MulSmall(MulSmall(ToLimbs(kCubeCongestionWindowScale),
          offset), offset), offset), DEFAULT_TCP_MSS))

\* The cubic target before the heuristics (lines 220-232)
CubicTarget(cu, t) ==
    LET elapsed_time == ElapsedTime(t, cu.epoch_start_time)
        offset       == Abs(cu.time_of_origin - elapsed_time)
        delta        == DeltaCongestionWindow(offset)
        addDelta     == U64Gt(elapsed_time, cu.time_of_origin)
    IN IF addDelta THEN cu.origin_cwnd + delta
       ELSE cu.origin_cwnd - delta   \* below zero: stands for 2^64 + it

\* estimated_nr_cwnd += acked * (Alpha * DEFAULT_TCP_MSS) / estimated_nr_cwnd
NewRenoUpdate(est, acked, n, u) ==
    FToU64(FAdd(FInt(est),
                FDiv(FMul(FInt(acked), FMul(Alpha(n), FInt(DEFAULT_TCP_MSS))),
                     FInt(est))), u)

\* A cubic update that commits the growth-limited target without the
\* New-Reno comparison
CubicUpdate_NoNewRenoFloor(cw, cu, n, rtt, t, acked, kcf, u) ==
    LET cu1     == StartEpoch(cw, cu, rtt, t, kcf)
        target  == CubicTarget(cu1, t)
        limit   == cw + acked \div 2
        limited == IF U64Gt(target, limit) THEN limit ELSE target
        est     == NewRenoUpdate(cu1.estimated_nr_cwnd, acked, n, u)
    IN <<limited, [cu1 EXCEPT !.last_target_cwnd  = limited,
                              !.estimated_nr_cwnd = est]>>

\* A cubic update without the growth limitation
CubicUpdate_NoGrowthLimit(cw, cu, n, rtt, t, acked, kcf, u) ==
    LET cu1     == StartEpoch(cw, cu, rtt, t, kcf)
        target  == CubicTarget(cu1, t)
        limited == IF target < 0 THEN cw + acked \div 2 ELSE target
        est     == NewRenoUpdate(cu1.estimated_nr_cwnd, acked, n, u)
        final   == IF limited < est THEN est ELSE limited
    IN <<final, [cu1 EXCEPT !.last_target_cwnd  = limited,
                            !.estimated_nr_cwnd = est]>>

\* A cubic update that commits the window against the estimate of the
\* previous acknowledgement and updates the estimate afterwards
CubicUpdate_EstimateAfterCommit(cw, cu, n, rtt, t, acked, kcf, u) ==
    LET cu1     == StartEpoch(cw, cu, rtt, t, kcf)
        target  == CubicTarget(cu1, t)
        limit   == cw + acked \div 2
        limited == IF U64Gt(target, limit) THEN limit ELSE target
        est     == NewRenoUpdate(cu1.estimated_nr_cwnd, acked, n, u)
        final   == IF limited < cu1.estimated_nr_cwnd
                   THEN cu1.estimated_nr_cwnd ELSE limited
    IN <<final, [cu1 EXCEPT !.last_target_cwnd  = limited,
                            !.estimated_nr_cwnd = est]>>

\* picoquic_cubic_process_ack past the application-limited test
\* (lines 194-255): the new <<cwin, cu_state>>
CubicUpdate(cw, cu, n, rtt, t, acked, kcf, u) ==
    LET cu1     == StartEpoch(cw, cu, rtt, t, kcf)
        target  == CubicTarget(cu1, t)
        limit   == cw + acked \div 2
        limited == IF U64Gt(target, limit) THEN limit ELSE target
        est     == NewRenoUpdate(cu1.estimated_nr_cwnd, acked, n, u)
        final   == IF limited < est THEN est ELSE limited
    IN <<final, [cu1 EXCEPT !.last_target_cwnd  = limited,
                            !.estimated_nr_cwnd = est]>>

\* An acknowledgement handler whose application-limited branch does not
\* return
process_ack_NoReturn(cw, cu, n, bit, rtt, t, acked, kcf, u) ==
    IF bit < cw
    THEN CubicUpdate(cw, [cu EXCEPT !.epoch_start_time = 0], n, rtt, t, acked, kcf, u)
    ELSE CubicUpdate(cw, cu, n, rtt, t, acked, kcf, u)

\* picoquic_cubic_process_ack: the new <<cwin, cu_state>>
picoquic_cubic_process_ack(cw, cu, n, bit, rtt, t, acked, kcf, u) ==
    IF bit < cw
    THEN <<cw, [cu EXCEPT !.epoch_start_time = 0]>>
    ELSE CubicUpdate(cw, cu, n, rtt, t, acked, kcf, u)

\* A slow start whose acknowledgement case lacks its break and falls into
\* the loss case
SlowStartNotify_AckFallsThrough(cw, cu, ev, n, acked, u) ==
    IF ev = Acknowledgement
    THEN picoquic_cubic_process_loss(
             cw + acked, [cu EXCEPT !.alg_state = congestion_avoidance], n, u)
    ELSE IF ev \in {Repeat, Timeout}
    THEN picoquic_cubic_process_loss(
             cw, [cu EXCEPT !.alg_state = congestion_avoidance], n, u)
    ELSE <<cw, cu>>

\* A slow start that counts at most two segments per acknowledgement
SlowStartNotify_ByteCountLimit(cw, cu, ev, n, acked, u) ==
    IF ev = Acknowledgement
    THEN <<cw + (IF acked > 2 * DEFAULT_TCP_MSS THEN 2 * DEFAULT_TCP_MSS
                 ELSE acked), cu>>
    ELSE IF ev \in {Repeat, Timeout}
    THEN picoquic_cubic_process_loss(
             cw, [cu EXCEPT !.alg_state = congestion_avoidance], n, u)
    ELSE <<cw, cu>>

\* The slow-start case of picoquic_cubic_notify (lines 315-336)
SlowStartNotify(cw, cu, ev, n, acked, u) ==
    IF ev = Acknowledgement THEN <<cw + acked, cu>>
    ELSE IF ev \in {Repeat, Timeout}
    THEN picoquic_cubic_process_loss(
             cw, [cu EXCEPT !.alg_state = congestion_avoidance], n, u)
    ELSE <<cw, cu>>

\* A congestion avoidance that undoes the window cut on a spurious repeat
CongestionAvoidanceNotify_SpuriousRestores(cw, cu, ev, n, bit, rtt, t, acked, kcf, u) ==
    IF ev = Acknowledgement
    THEN picoquic_cubic_process_ack(cw, cu, n, bit, rtt, t, acked, kcf, u)
    ELSE IF ev \in {Repeat, Timeout}
    THEN picoquic_cubic_process_loss(cw, cu, n, u)
    ELSE IF ev = SpuriousRepeat /\ cw < cu.last_max_cwnd
    THEN <<cu.last_max_cwnd, cu>>
    ELSE <<cw, cu>>

\* The congestion-avoidance case of picoquic_cubic_notify (lines 337-353)
CongestionAvoidanceNotify(cw, cu, ev, n, bit, rtt, t, acked, kcf, u) ==
    IF ev = Acknowledgement
    THEN picoquic_cubic_process_ack(cw, cu, n, bit, rtt, t, acked, kcf, u)
    ELSE IF ev \in {Repeat, Timeout}
    THEN picoquic_cubic_process_loss(cw, cu, n, u)
    ELSE <<cw, cu>>

\* picoquic_cubic_notify: the new <<cwin, cu_state>>
picoquic_cubic_notify(cw, cu, ev, n, bit, rtt, t, acked, kcf, u) ==
    IF cu = NULL THEN <<cw, cu>>
    ELSE IF cu.alg_state = slow_start
    THEN SlowStartNotify(cw, cu, ev, n, acked, u)
    ELSE CongestionAvoidanceNotify(cw, cu, ev, n, bit, rtt, t, acked, kcf, u)

-----------------------------------------------------------------------------
(* The calls of the transport *)

\* path_x->bytes_in_transit when a notification arrives: the window is
\* either half used or fully used
BytesInTransitSet(cw) == {cw \div 2, cw}

Call(op, ev, acked, n, bit, rtt, ok) ==
    [op |-> op, ev |-> ev, acked |-> acked, n |-> n,
     bytes_in_transit |-> bit, rtt_min |-> rtt, malloc_ok |-> ok]

\* The parts of the program a specification does not run stay as they are
\* before anything has run
ScalingIdle ==
    /\ total_stream_count = 1
    /\ scaling = [computed |-> FALSE, beta |-> <<0, 0>>, betaLastMax |-> <<0, 0>>,
                  betaNext |-> <<0, 0>>, betaLastMaxNext |-> <<0, 0>>]
RunnerIdle ==
    /\ argv = <<>>
    /\ arg_num = 1
    /\ nb_test_tried = 0
    /\ nb_test_failed = 0
    /\ ret = 0
    /\ executed = <<>>
    /\ mainPc = "idle"
RelayIdle ==
    /\ relay = "absent"
    /\ caller = "none"
    /\ telPc = "idle"
    /\ datagram = <<>>
    /\ data = <<>>
    /\ result = <<>>
    /\ error = "none"
    /\ registered = FALSE
    /\ rstats_connection_id = 0
PairIdle ==
    /\ paths = <<>>
    /\ alone = <<>>
    /\ factorWriter = 0
    /\ foreignRead = FALSE

\* A path as the transport creates it, before any controller call
PathCreated ==
    /\ cwin = PICOQUIC_CWIN_INITIAL
    /\ cu_state = NULL
    /\ kCubeFactor = 0
    /\ now = NowInit
    /\ last = Call("none", Unknown, 0, 1, 0, 0, TRUE)
    /\ heap = [allocated |-> 0, released |-> 0, failed |-> FALSE]
    /\ prev = [cwin |-> PICOQUIC_CWIN_INITIAL, cu_state |-> NULL, heap |-> heap]
    /\ ackedSinceInit = 0
    /\ undefinedSeen = FALSE
    /\ epochAcks = 0
    /\ nCalls = 0

Init ==
    /\ PathCreated
    /\ ScalingIdle
    /\ RunnerIdle
    /\ RelayIdle
    /\ PairIdle

\* malloc in picoquic_cubic_init: one more record when it succeeds
Malloc(ok) ==
    [heap EXCEPT !.allocated = IF ok THEN @ + 1 ELSE @, !.failed = ~ok]

\* An init that leaves path_x->cwin as it finds it
CubicInit_KeepsCwin ==
    \E ok \in BOOLEAN :
        /\ nCalls < MaxCalls
        /\ kCubeFactor' = CubeFactorValue
        /\ cu_state' = IF ok THEN InitialState ELSE NULL
        /\ heap' = Malloc(ok)
        /\ last' = Call("init", Unknown, 0, 1, 0, 0, ok)
        /\ prev' = [cwin |-> cwin, cu_state |-> cu_state, heap |-> heap]
        /\ ackedSinceInit' = 0
        /\ undefinedSeen' = (undefinedSeen /\ ~ok)
        /\ epochAcks' = 0
        /\ nCalls' = nCalls + 1
        /\ UNCHANGED <<cwin, now>>

\* An init that sets path_x->cwin outside the test of the allocation
CubicInit_SetsCwinOnFailure ==
    \E ok \in BOOLEAN :
        /\ nCalls < MaxCalls
        /\ kCubeFactor' = CubeFactorValue
        /\ cu_state' = IF ok THEN InitialState ELSE NULL
        /\ cwin' = PICOQUIC_CWIN_INITIAL
        /\ heap' = Malloc(ok)
        /\ last' = Call("init", Unknown, 0, 1, 0, 0, ok)
        /\ prev' = [cwin |-> cwin, cu_state |-> cu_state, heap |-> heap]
        /\ ackedSinceInit' = 0
        /\ undefinedSeen' = (undefinedSeen /\ ~ok)
        /\ epochAcks' = 0
        /\ nCalls' = nCalls + 1
        /\ UNCHANGED now

\* picoquic_cubic_init once the registration to the relay has returned
\* (lines 101-116); malloc may return NULL
CubicInitAllocate ==
    \E ok \in BOOLEAN :
        /\ nCalls < MaxCalls
        /\ kCubeFactor' = CubeFactorValue
        /\ cu_state' = IF ok THEN InitialState ELSE NULL
        /\ cwin' = IF ok THEN PICOQUIC_CWIN_INITIAL ELSE cwin
        /\ heap' = Malloc(ok)
        /\ last' = Call("init", Unknown, 0, 1, 0, 0, ok)
        /\ prev' = [cwin |-> cwin, cu_state |-> cu_state, heap |-> heap]
        /\ ackedSinceInit' = 0
        /\ undefinedSeen' = (undefinedSeen /\ ~ok)
        /\ epochAcks' = 0
        /\ nCalls' = nCalls + 1
        /\ UNCHANGED now

\* picoquic_cubic_init, for a path whose registration returns; what the
\* registration does is followed in SpecRelay
CubicInit ==
    /\ CubicInitAllocate
    /\ UNCHANGED <<scalingVars, runnerVars, relayVars, pairVars>>
        /\ UNCHANGED now

\* The bytes acknowledged since init, counted until the first loss
AckedAfter(ev, acked) ==
    IF ev \in {Repeat, Timeout} \/ cu_state = NULL
       \/ cu_state.alg_state # slow_start
    THEN 0
    ELSE IF ev = Acknowledgement THEN ackedSinceInit + acked
    ELSE ackedSinceInit


\* The call converts an infinity or a NaN to uint64_t: a loss with a stream
\* count of 0 (lines 279, 285), a cubic update with a count of 0 or with
\* estimated_nr_cwnd = 0 as its divisor (line 249)
ConvertsNonFinite(ev, n, bit) ==
    /\ cu_state # NULL
    /\ \/ ev \in {Repeat, Timeout} /\ n = 0
       \/ /\ ev = Acknowledgement
          /\ cu_state.alg_state = congestion_avoidance
          /\ bit >= cwin
          /\ \/ n = 0
             \/ cu_state.epoch_start_time = 0 /\ cwin = 0
             \/ cu_state.epoch_start_time # 0
                    /\ cu_state.estimated_nr_cwnd = 0

\* What an undefined conversion of the call may yield; one value when the
\* call has none
UndefinedOutcomes(ev, n, bit) ==
    IF ConvertsNonFinite(ev, n, bit) THEN UndefinedU64Set ELSE {0}

\* The cubic updates of the running epoch once the call is made: a loss and
\* an application-limited acknowledgement end the epoch, the other events
\* leave it as it is
EpochAcksAfter(ev, bit) ==
    IF cu_state = NULL THEN 0
    ELSE IF ev \in {Repeat, Timeout} THEN 0
    ELSE IF ev # Acknowledgement THEN epochAcks
    ELSE IF cu_state.alg_state # congestion_avoidance THEN epochAcks
    ELSE IF bit < cwin THEN 0
    ELSE IF epochAcks >= 2 THEN 2 ELSE epochAcks + 1

\* picoquic_cubic_notify, called at time now + dt with the path fields
\* n, bit, rtt; u is the outcome of an undefined conversion
NotifyCall(ev, acked, n, bit, rtt, dt, u) ==
    LET r == picoquic_cubic_notify(cwin, cu_state, ev, n, bit, rtt,
                                   now + dt, acked, kCubeFactor, u)
    IN /\ cwin' = r[1]
       /\ cu_state' = r[2]
       /\ now' = now + dt
       /\ last' = Call("notify", ev, acked, n, bit, rtt, TRUE)
       /\ prev' = [cwin |-> cwin, cu_state |-> cu_state, heap |-> heap]
       /\ ackedSinceInit' = AckedAfter(ev, acked)
       /\ undefinedSeen' = (undefinedSeen \/ ConvertsNonFinite(ev, n, bit))
       /\ epochAcks' = EpochAcksAfter(ev, bit)
       /\ nCalls' = nCalls + 1
       /\ UNCHANGED <<kCubeFactor, heap>>
       /\ UNCHANGED <<scalingVars, runnerVars, relayVars, pairVars>>

\* A notification within the calls of a run
Notify(ev, acked, n, bit, rtt, dt, u) ==
    /\ nCalls < MaxCalls
    /\ NotifyCall(ev, acked, n, bit, rtt, dt, u)

InCongestionAvoidance ==
    cu_state # NULL /\ cu_state.alg_state = congestion_avoidance
InSlowStart ==
    cu_state # NULL /\ cu_state.alg_state = slow_start

\* The inputs a call does not read are held at one value: the stream count
\* and the time of the call are read only by a loss (the count) and by an
\* acknowledgement that reaches the cubic update, rtt_min only when that
\* acknowledgement starts an epoch.
ReadsCubicInputs(bit) == InCongestionAvoidance /\ bit >= cwin
ReadsRttMin(bit) == ReadsCubicInputs(bit) /\ cu_state.epoch_start_time = 0

NotifyAcknowledgement ==
    \E acked \in IF InSlowStart THEN SlowStartAckedSet ELSE AckedSet,
       bit \in BytesInTransitSet(cwin) :
        \E n \in IF ReadsCubicInputs(bit) THEN StreamSet ELSE {1},
           rtt \in IF ReadsRttMin(bit) THEN RttSet ELSE {NowInit},
           dt \in IF ReadsCubicInputs(bit) THEN DtSet ELSE {0} :
          \E u \in UndefinedOutcomes(Acknowledgement, n, bit) :
            Notify(Acknowledgement, acked, n, bit, rtt, dt, u)

NotifyLoss ==
    \E ev \in {Repeat, Timeout}, n \in StreamSet :
        \E u \in UndefinedOutcomes(ev, n, cwin) :
            Notify(ev, 0, n, cwin, NowInit, 0, u)

NotifyOther ==
    \E ev \in {SpuriousRepeat, RttMeasurement, Unknown} :
        Notify(ev, 0, 1, cwin, NowInit, 0, 0)

\* free in picoquic_cubic_delete, reached only with a record in the slot
Free(slot) ==
    IF slot # NULL THEN [heap EXCEPT !.released = @ + 1] ELSE heap

\* A delete that frees the record and leaves the pointer in the slot
CubicDelete_KeepsSlot ==
    /\ nCalls < MaxCalls
    /\ heap' = Free(cu_state)
    /\ last' = Call("delete", Unknown, 0, 1, 0, 0, TRUE)
    /\ prev' = [cwin |-> cwin, cu_state |-> cu_state, heap |-> heap]
    /\ nCalls' = nCalls + 1
    /\ epochAcks' = 0
    /\ UNCHANGED <<cwin, cu_state, kCubeFactor, now, ackedSinceInit,
                   undefinedSeen>>
    /\ UNCHANGED <<scalingVars, runnerVars, relayVars, pairVars>>

\* picoquic_cubic_delete
CubicDelete ==
    /\ nCalls < MaxCalls
    /\ heap' = Free(cu_state)
    /\ cu_state' = NULL
    /\ last' = Call("delete", Unknown, 0, 1, 0, 0, TRUE)
    /\ prev' = [cwin |-> cwin, cu_state |-> cu_state, heap |-> heap]
    /\ nCalls' = nCalls + 1
    /\ epochAcks' = 0
    /\ UNCHANGED <<cwin, kCubeFactor, now, ackedSinceInit, undefinedSeen>>
    /\ UNCHANGED <<scalingVars, runnerVars, relayVars, pairVars>>

Next ==
    \/ CubicInit
    \/ NotifyAcknowledgement
    \/ NotifyLoss
    \/ NotifyOther
    \/ CubicDelete

Spec == Init /\ [][Next]_vars

-----------------------------------------------------------------------------
(* A path that suffers a run of consecutive timeouts, with one stream, and  *)
(* is acknowledged afterwards.                                              *)

LossRunTimeout ==
    /\ nCalls < MaxLossRun
    /\ last.ev # Acknowledgement
    /\ NotifyCall(Timeout, 0, 1, cwin, NowInit, 0, 0)

LossRunAcknowledgement ==
    /\ nCalls < MaxLossRun
    /\ InCongestionAvoidance
    /\ \E u \in UndefinedOutcomes(Acknowledgement, 1, cwin) :
           NotifyCall(Acknowledgement, DEFAULT_TCP_MSS, 1, cwin, 20000, 0, u)

NextLossRun ==
    \/ CubicInit
    \/ LossRunTimeout
    \/ LossRunAcknowledgement

SpecLossRun == Init /\ [][NextLossRun]_vars

-----------------------------------------------------------------------------
(* picoquic_t: main() called with a list of test names and no option.       *)

\* The test names of test_table, in the order of the table
test_table ==
    <<"picohash", "cnxcreation", "parseheader", "pn2pn64", "intformat",
      "fnv1a", "float16", "varint", "skip_frames", "StreamZeroFrame",
      "sack", "sendack", "ackrange", "ack_of_ack", "sim_link", "logger",
      "tls_api", "silence_test", "tls_api_version_negotiation",
      "first_loss", "second_loss", "SH_loss", "client_losses",
      "server_losses", "transport_param_stream_id", "transport_param",
      "tls_api_sni", "tls_api_alpn", "tls_api_wrong_alpn",
      "tls_api_oneway_stream", "tls_api_q_and_r_stream",
      "tls_api_q2_and_r2_stream", "tls_api_server_reset",
      "tls_api_bad_server_reset", "tls_api_very_long_stream",
      "tls_api_very_long_max", "tls_api_very_long_with_err",
      "tls_api_very_long_congestion", "http0dot9", "hrr",
      "two_connections", "clear_text_aead", "multiple_versions",
      "ping_pong", "keep_alive", "sockets", "ticket_store",
      "session_resume", "zero_rtt", "stop_sending", "unidir",
      "mtu_discovery", "spurious_retransmit", "wrong_keyshare", "pn_ctr",
      "cleartext_pn_enc", "pn_enc_1rtt", "tls_zero_share",
      "cleartext_aead_vector", "transport_param_log", "bad_certificate",
      "set_verify_certificate_callback_test", "virtual_time",
      "different_params", "wrong_tls_version", "set_certificate_and_key",
      "request_client_authentication", "bad_client_certificate",
      "nat_rebinding", "nat_rebinding_loss", "spin_bit", "client_error",
      "packet_enc_dec", "pn_vector", "zero_rtt_spurious", "zero_rtt_retry",
      "parse_frames", "stress", "splay">>

nb_tests == Len(test_table)

\* get_test_number: the index (from 0) of the last entry with that name,
\* -1 when there is none
get_test_number(test_name) ==
    LET found == {i \in 1..nb_tests : test_table[i] = test_name}
    IN IF found = {} THEN -1
       ELSE (CHOOSE i \in found : \A j \in found : j <= i) - 1

\* The lists of 1 to MaxArgs names
ArgLists == UNION {[1..k -> ArgNameSet] : k \in 1..MaxArgs}

\* main() after getopt found no option: ret = 0, optind < argc
InitRunner ==
    /\ PathCreated
    /\ ScalingIdle
    /\ argv \in ArgLists
    /\ arg_num = 1
    /\ nb_test_tried = 0
    /\ nb_test_failed = 0
    /\ ret = 0
    /\ executed = <<>>
    /\ mainPc = "names"
    /\ RelayIdle
    /\ PairIdle

\* One turn of the loop over the names with a name that is not in the
\* table: usage() is printed and returns -1, and the loop goes on
NamedTestUnknown ==
    /\ mainPc = "names"
    /\ arg_num <= Len(argv)
    /\ get_test_number(argv[arg_num]) < 0
    /\ ret' = -1
    /\ arg_num' = arg_num + 1
    /\ UNCHANGED <<argv, nb_test_tried, nb_test_failed, executed, mainPc>>
    /\ UNCHANGED <<ctlVars, nCalls, scalingVars, relayVars, pairVars>>

\* One turn of the loop with a name of the table: the test runs, succeeds
\* or fails, and the loop is left by the break
NamedTestRun ==
    /\ mainPc = "names"
    /\ arg_num <= Len(argv)
    /\ get_test_number(argv[arg_num]) >= 0
    /\ \E test_ret \in {0, -1} :
          /\ nb_test_failed' = IF test_ret # 0 THEN nb_test_failed + 1
                               ELSE nb_test_failed
          /\ ret' = IF test_ret # 0 THEN -1 ELSE ret
    /\ nb_test_tried' = nb_test_tried + 1
    /\ executed' = Append(executed, get_test_number(argv[arg_num]))
    /\ mainPc' = "report"
    /\ UNCHANGED <<argv, arg_num>>
    /\ UNCHANGED <<ctlVars, nCalls, scalingVars, relayVars, pairVars>>

\* The loop ends with the last argument
NamedTestsEnd ==
    /\ mainPc = "names"
    /\ arg_num > Len(argv)
    /\ mainPc' = "report"
    /\ UNCHANGED <<argv, arg_num, nb_test_tried, nb_test_failed, ret, executed>>
    /\ UNCHANGED <<ctlVars, nCalls, scalingVars, relayVars, pairVars>>

\* The report of the tests tried, and the return of main()
MainReturn ==
    /\ mainPc = "report"
    /\ mainPc' = "done"
    /\ UNCHANGED <<argv, arg_num, nb_test_tried, nb_test_failed, ret, executed>>
    /\ UNCHANGED <<ctlVars, nCalls, scalingVars, relayVars, pairVars>>

NextRunner ==
    \/ NamedTestUnknown
    \/ NamedTestRun
    \/ NamedTestsEnd
    \/ MainReturn

SpecRunner == InitRunner /\ [][NextRunner]_vars

-----------------------------------------------------------------------------
(* The scaling factors Beta and BetaLastMax, computed for a stream count   *)
(* and for the next one.                                                    *)

InitScaling ==
    /\ PathCreated
    /\ total_stream_count \in 1..MaxStreamCount
    /\ scaling = [computed |-> FALSE, beta |-> <<0, 0>>, betaLastMax |-> <<0, 0>>,
                  betaNext |-> <<0, 0>>, betaLastMaxNext |-> <<0, 0>>]
    /\ RunnerIdle
    /\ RelayIdle
    /\ PairIdle

ComputeScaling ==
    /\ ~scaling.computed
    /\ scaling' = [computed        |-> TRUE,
                   beta            |-> Beta(total_stream_count),
                   betaLastMax     |-> BetaLastMax(total_stream_count),
                   betaNext        |-> Beta(total_stream_count + 1),
                   betaLastMaxNext |-> BetaLastMax(total_stream_count + 1)]
    /\ UNCHANGED <<ctlVars, nCalls, total_stream_count, runnerVars, relayVars,
                   pairVars>>

NextScaling == ComputeScaling

SpecScaling == InitScaling /\ [][NextScaling]_vars

-----------------------------------------------------------------------------
(* Two paths of one process, each with its own cwin and its own controller  *)
(* record; kCubeFactor is the one static both share.  A call reads or       *)
(* writes kCubeFactor at one place (init writes it at line 102, the epoch   *)
(* start reads it at line 212), so two calls that overlap in time behave as *)
(* the two calls in one of the two orders.  Next to the two paths, alone    *)
(* keeps what each path would be with the other path not there.             *)

PathIds == {1, 2}

InitPair ==
    /\ PathCreated
    /\ ScalingIdle
    /\ RunnerIdle
    /\ RelayIdle
    /\ paths = [p \in PathIds |->
                    [cwin |-> PICOQUIC_CWIN_INITIAL, cu_state |-> NULL]]
    /\ alone = [p \in PathIds |->
                    [cwin |-> PICOQUIC_CWIN_INITIAL, cu_state |-> NULL,
                     kCubeFactor |-> 0]]
    /\ factorWriter = 0
    /\ foreignRead = FALSE

\* What a call on one of the two paths leaves alone
PairUnchanged ==
    UNCHANGED <<cwin, cu_state, now, last, prev, ackedSinceInit, heap,
                undefinedSeen, epochAcks, scalingVars, runnerVars, relayVars>>

\* An init that scales the factor it stores by the number of the path
PairInit_FactorPerPath(p, ok) ==
    /\ nCalls < MaxPairCalls
    /\ kCubeFactor' = CubeFactorValue * p
    /\ paths' = [paths EXCEPT ![p] =
                    IF ok THEN [cwin |-> PICOQUIC_CWIN_INITIAL,
                                cu_state |-> InitialState]
                    ELSE [@ EXCEPT !.cu_state = NULL]]
    /\ alone' = [alone EXCEPT ![p] =
                    IF ok THEN [cwin |-> PICOQUIC_CWIN_INITIAL,
                                cu_state |-> InitialState,
                                kCubeFactor |-> CubeFactorValue * p]
                    ELSE [@ EXCEPT !.cu_state = NULL,
                                   !.kCubeFactor = CubeFactorValue * p]]
    /\ factorWriter' = p
    /\ nCalls' = nCalls + 1
    /\ UNCHANGED foreignRead
    /\ PairUnchanged

\* picoquic_cubic_init on path p
PairInit(p, ok) ==
    /\ nCalls < MaxPairCalls
    /\ kCubeFactor' = CubeFactorValue
    /\ paths' = [paths EXCEPT ![p] =
                    IF ok THEN [cwin |-> PICOQUIC_CWIN_INITIAL,
                                cu_state |-> InitialState]
                    ELSE [@ EXCEPT !.cu_state = NULL]]
    /\ alone' = [alone EXCEPT ![p] =
                    IF ok THEN [cwin |-> PICOQUIC_CWIN_INITIAL,
                                cu_state |-> InitialState,
                                kCubeFactor |-> CubeFactorValue]
                    ELSE [@ EXCEPT !.cu_state = NULL,
                                   !.kCubeFactor = CubeFactorValue]]
    /\ factorWriter' = p
    /\ nCalls' = nCalls + 1
    /\ UNCHANGED foreignRead
    /\ PairUnchanged

\* The call reads kCubeFactor: an acknowledgement that starts an epoch
\* below last_max_cwnd (line 212)
ReadsCubeFactor(cw, cu, ev) ==
    /\ cu # NULL
    /\ ev = Acknowledgement
    /\ cu.alg_state = congestion_avoidance
    /\ cu.epoch_start_time = 0
    /\ cu.last_max_cwnd > cw

\* picoquic_cubic_notify on path p, with one stream, the window fully
\* used and rtt_min = 20000
PairNotify(p, ev, acked) ==
    LET r == picoquic_cubic_notify(paths[p].cwin, paths[p].cu_state, ev, 1,
                                   paths[p].cwin, 20000, now, acked,
                                   kCubeFactor, 0)
        a == picoquic_cubic_notify(alone[p].cwin, alone[p].cu_state, ev, 1,
                                   alone[p].cwin, 20000, now, acked,
                                   alone[p].kCubeFactor, 0)
    IN /\ nCalls < MaxPairCalls
       /\ paths' = [paths EXCEPT ![p] = [cwin |-> r[1], cu_state |-> r[2]]]
       /\ alone' = [alone EXCEPT ![p] = [@ EXCEPT !.cwin = a[1],
                                                  !.cu_state = a[2]]]
       /\ foreignRead' = (foreignRead
                            \/ (ReadsCubeFactor(paths[p].cwin,
                                                 paths[p].cu_state, ev)
                                /\ factorWriter # p))
       /\ nCalls' = nCalls + 1
       /\ UNCHANGED <<kCubeFactor, factorWriter>>
       /\ PairUnchanged

\* picoquic_cubic_delete on path p
PairDelete(p) ==
    /\ nCalls < MaxPairCalls
    /\ paths' = [paths EXCEPT ![p] = [@ EXCEPT !.cu_state = NULL]]
    /\ alone' = [alone EXCEPT ![p] = [@ EXCEPT !.cu_state = NULL]]
    /\ nCalls' = nCalls + 1
    /\ UNCHANGED <<kCubeFactor, factorWriter, foreignRead>>
    /\ PairUnchanged

PairInitCall == \E p \in PathIds, ok \in BOOLEAN : PairInit(p, ok)
PairAcknowledgement ==
    \E p \in PathIds, acked \in AckedSet : PairNotify(p, Acknowledgement, acked)
PairLoss == \E p \in PathIds : PairNotify(p, Repeat, 0)
PairOther == \E p \in PathIds : PairNotify(p, RttMeasurement, 0)
PairDeleteCall == \E p \in PathIds : PairDelete(p)

NextPair ==
    \/ PairInitCall
    \/ PairAcknowledgement
    \/ PairLoss
    \/ PairOther
    \/ PairDeleteCall

SpecPair == InitPair /\ [][NextPair]_vars

-----------------------------------------------------------------------------
(* collectagent: the client of the RStats relay, called by                  *)
(* picoquic_cubic_init (register_collect) and by the six commands.  A       *)
(* string is a sequence of characters; NUL ends a C string.                 *)

NUL == "NUL"

\* What the relay does: it is not there, it answers KO, it answers OK, it
\* takes the datagram and never answers
RelayModes == {"absent", "rejects", "answers", "silent"}

CommandSet == {"send_stat", "send_prepared_stat", "reload_stat",
               "remove_stat", "reload_all_stats", "change_config"}

\* data is not initialised: the stack holds zeros there, or what other
\* calls left
StaleDataSet == {<<>>, <<"?", "?", "?", "?", "?", "?">>}

\* The datagrams the relay answers with; it may or may not end them with NUL
OkReply == <<"O", "K", " ", "7">>
KoReply == <<"K", "O">>
RelayReplies ==
    IF relay = "answers" THEN {OkReply, OkReply \o <<NUL>>}
    ELSE IF relay = "rejects" THEN {KoReply, KoReply \o <<NUL>>}
    ELSE {}

\* sock.send_to fails only when no relay is there
SendErrors == IF relay = "absent" THEN {"none", "send"} ELSE {"none"}

\* sock.receive(asio::buffer(data)): the datagram, cut at the size of the
\* buffer, is written over the start of the buffer
Received(buf, msg) ==
    LET n   == IF Len(msg) > DataSize THEN DataSize ELSE Len(msg)
        len == IF Len(buf) > n THEN Len(buf) ELSE n
    IN [i \in 1..len |-> IF i <= n THEN msg[i] ELSE buf[i]]

\* std::string(data): the characters before the first NUL
RECURSIVE CString(_)
CString(buf) ==
    IF buf = <<>> \/ Head(buf) = NUL THEN <<>>
    ELSE <<Head(buf)>> \o CString(Tail(buf))

\* operator>> into a std::string: blanks are skipped, then the characters
\* up to the next blank are taken
RECURSIVE SkipBlanks(_)
SkipBlanks(str) ==
    IF str # <<>> /\ Head(str) = " " THEN SkipBlanks(Tail(str)) ELSE str
RECURSIVE WordOf(_)
WordOf(str) ==
    IF str = <<>> \/ Head(str) = " " THEN <<>>
    ELSE <<Head(str)>> \o WordOf(Tail(str))
FirstWord(str) == WordOf(SkipBlanks(str))
AfterFirstWord(str) ==
    LET rest == SkipBlanks(str)
    IN SubSeq(rest, Len(WordOf(rest)) + 1, Len(rest))

\* operator>> into an unsigned int: the value of the digits that follow
\* the blanks, 0 when none does
DigitChars == <<"0", "1", "2", "3", "4", "5", "6", "7", "8", "9">>
IsDigit(c) == \E i \in 1..10 : DigitChars[i] = c
DigitValue(c) == (CHOOSE i \in 1..10 : DigitChars[i] = c) - 1
RECURSIVE ParseDigits(_, _)
ParseDigits(str, acc) ==
    IF str = <<>> \/ ~IsDigit(Head(str)) THEN acc
    ELSE ParseDigits(Tail(str), acc * 10 + DigitValue(Head(str)))
ParseUnsigned(str) == ParseDigits(SkipBlanks(str), 0)

\* register_collect once rstats_messager has returned reply (lines
\* 139-163): <<the value returned, rstats_connection_id>>
RegisterResult(reply) ==
    IF FirstWord(reply) = <<"O", "K">>
    THEN <<TRUE, ParseUnsigned(AfterFirstWord(reply))>>
    ELSE <<FALSE, 0>>

\* The string a command returns when rstats_messager throws: "KO Failed
\* to ..." and e.what(); what follows "KO Failed" is kept as two elements
FailureMessage(c, err) ==
    <<"K", "O", " ", "F", "a", "i", "l", "e", "d">> \o <<c, err>>

InitRelay ==
    /\ PathCreated
    /\ ScalingIdle
    /\ RunnerIdle
    /\ relay \in RelayModes
    /\ caller = "none"
    /\ telPc = "idle"
    /\ datagram = <<>>
    /\ data \in StaleDataSet
    /\ result = <<>>
    /\ error = "none"
    /\ registered = FALSE
    /\ rstats_connection_id = 0
    /\ PairIdle

\* rstats_messager, entered by c, up to sock.send_to (lines 60-71)
MessagerSend(c, err) ==
    /\ telPc = "idle"
    /\ nCalls < MaxCalls
    /\ caller' = c
    /\ error' = err
    /\ datagram' = <<>>
    /\ UNCHANGED <<relay, data, rstats_connection_id>>

\* picoquic_cubic_init up to the datagram of register_collect; when the
\* datagram cannot be sent, register_collect returns false
CubicInitRegister ==
    /\ \E err \in SendErrors :
          /\ MessagerSend("init", err)
          /\ telPc' = IF err = "none" THEN "receive" ELSE "registered"
          /\ registered' = IF err = "none" THEN registered ELSE FALSE
    /\ UNCHANGED result
    /\ UNCHANGED <<ctlVars, nCalls, scalingVars, runnerVars, pairVars>>

\* One of the six commands up to its datagram; when the datagram cannot be
\* sent, the command returns its failure message
CommandSend ==
    /\ \E c \in CommandSet, err \in SendErrors :
          /\ MessagerSend(c, err)
          /\ telPc' = IF err = "none" THEN "receive" ELSE "idle"
          /\ result' = IF err = "none" THEN result ELSE FailureMessage(c, err)
          /\ nCalls' = IF err = "none" THEN nCalls ELSE nCalls + 1
    /\ UNCHANGED registered
    /\ UNCHANGED <<ctlVars, scalingVars, runnerVars, pairVars>>

\* sock.receive returns with a datagram of the relay (lines 75-82), and
\* the caller goes on with std::string(data)
ReceiveReply ==
    /\ telPc = "receive"
    /\ \E reply \in RelayReplies :
          /\ datagram' = reply
          /\ data' = Received(data, reply)
    /\ error' = "none"
    /\ IF caller = "init"
       THEN /\ registered' = RegisterResult(CString(data'))[1]
            /\ rstats_connection_id' = RegisterResult(CString(data'))[2]
            /\ telPc' = "registered"
            /\ UNCHANGED <<result, nCalls>>
       ELSE /\ result' = CString(data')
            /\ telPc' = "idle"
            /\ nCalls' = nCalls + 1
            /\ UNCHANGED <<registered, rstats_connection_id>>
    /\ UNCHANGED <<relay, caller>>
    /\ UNCHANGED <<ctlVars, scalingVars, runnerVars, pairVars>>

\* sock.receive returns with an error (lines 77-80): no relay is there
ReceiveError ==
    /\ telPc = "receive"
    /\ relay = "absent"
    /\ error' = "receive"
    /\ IF caller = "init"
       THEN /\ registered' = FALSE
            /\ telPc' = "registered"
            /\ UNCHANGED <<result, nCalls>>
       ELSE /\ result' = FailureMessage(caller, "receive")
            /\ telPc' = "idle"
            /\ nCalls' = nCalls + 1
            /\ UNCHANGED registered
    /\ UNCHANGED <<relay, caller, datagram, data, rstats_connection_id>>
    /\ UNCHANGED <<ctlVars, scalingVars, runnerVars, pairVars>>

\* picoquic_cubic_init from the return of register_collect to its end
CubicInitReturn ==
    /\ telPc = "registered"
    /\ CubicInitAllocate
    /\ telPc' = "idle"
    /\ UNCHANGED <<relay, caller, datagram, data, result, error, registered,
                   rstats_connection_id>>
    /\ UNCHANGED <<scalingVars, runnerVars, pairVars>>

\* The relay is another process: between two calls it may stop, start or
\* change what it answers
RelayChanges ==
    /\ telPc = "idle"
    /\ relay' \in RelayModes \ {relay}
    /\ UNCHANGED <<caller, telPc, datagram, data, result, error, registered,
                   rstats_connection_id>>
    /\ UNCHANGED <<ctlVars, nCalls, scalingVars, runnerVars, pairVars>>

NextRelay ==
    \/ RelayChanges
    \/ CubicInitRegister
    \/ CommandSend
    \/ ReceiveReply
    \/ ReceiveError
    \/ CubicInitReturn

SpecRelay == InitRelay /\ [][NextRelay]_vars

-----------------------------------------------------------------------------
(* Properties *)

\* The last call was a notify that found a controller
Notified == last.op = "notify" /\ prev.cu_state # NULL
NotifiedIn(state) == Notified /\ prev.cu_state.alg_state = state
LossEvents == {Repeat, Timeout}

\* floor(((n - 1) + 0.7) / n * cw) and floor(((n - 1) + 0.85) / n * cw) in
\* exact arithmetic
\* floor(cw * num / den), the product kept within range
FloorOfProduct(cw, num, den) ==
    (cw \div den) * num + ((cw % den) * num) \div den
ExactBetaFloor(cw, n) == FloorOfProduct(cw, 10 * (n - 1) + 7, 10 * n)
ExactBetaLastMaxFloor(cw, n) == FloorOfProduct(cw, 100 * (n - 1) + 85, 100 * n)

\* C1: after every notify of a run delivered, with stream counts n >= 1, to
\* an initialised controller, cwin >= PICOQUIC_CWIN_INITIAL.
C1_CwndAtLeastMin ==
    (Notified /\ ~undefinedSeen) => cwin >= PICOQUIC_CWIN_INITIAL

\* C2: a notify never takes the controller from congestion avoidance back
\* to slow start, and takes it from slow start to congestion avoidance
\* exactly when the event is Repeat or Timeout.
C2_SlowStartLeftOnlyByLoss ==
    Notified =>
        /\ cu_state # NULL
        /\ (prev.cu_state.alg_state = congestion_avoidance
                => cu_state.alg_state = congestion_avoidance)
        /\ (prev.cu_state.alg_state = slow_start
                => (cu_state.alg_state = congestion_avoidance
                        <=> last.ev \in LossEvents))
        /\ cu_state.alg_state \in {slow_start, congestion_avoidance}

C2_Witness ==
    /\ NotifiedIn(congestion_avoidance)
    /\ last.ev = Acknowledgement
    /\ cu_state.alg_state = congestion_avoidance
    /\ nCalls >= 4

RECURSIVE AcksOf(_, _, _)
\* k acknowledgements of a bytes delivered to <<cwin, cu_state>> s
AcksOf(s, a, k) ==
    IF k = 0 THEN s
    ELSE AcksOf(picoquic_cubic_notify(s[1], s[2], Acknowledgement, 1, s[1],
                                      20000, NowInit, a, CubeFactorValue, 0),
                a, k - 1)

\* C3: in slow start an acknowledgement of a bytes adds a to cwin and
\* changes nothing else, whatever bytes_in_transit is; so in slow start cwin
\* is PICOQUIC_CWIN_INITIAL plus the bytes acknowledged since init, and five
\* acknowledgements of 1500 after init give PICOQUIC_CWIN_INITIAL + 7500.
C3_SlowStartAdditiveGrowth ==
    /\ (NotifiedIn(slow_start) /\ last.ev = Acknowledgement)
            => (cwin = prev.cwin + last.acked /\ cu_state = prev.cu_state)
    /\ (cu_state # NULL /\ cu_state.alg_state = slow_start)
            => cwin = PICOQUIC_CWIN_INITIAL + ackedSinceInit
    /\ AcksOf(<<PICOQUIC_CWIN_INITIAL, InitialState>>, 1500, 5)
            = <<PICOQUIC_CWIN_INITIAL + 7500, InitialState>>

C3_Witness ==
    /\ NotifiedIn(slow_start)
    /\ last.ev = Acknowledgement
    /\ last.bytes_in_transit < prev.cwin
    /\ ackedSinceInit > last.acked
    /\ cwin = PICOQUIC_CWIN_INITIAL + ackedSinceInit

\* C4: a Repeat or Timeout in congestion avoidance, with a stream count
\* n >= 1, never raises cwin and leaves epoch_start_time = 0.
C4_LossShrinksAndEndsEpoch ==
    (NotifiedIn(congestion_avoidance) /\ last.ev \in LossEvents /\ last.n >= 1)
        => (cwin <= prev.cwin /\ cu_state.epoch_start_time = 0)

C4_Witness ==
    /\ NotifiedIn(congestion_avoidance)
    /\ last.ev \in LossEvents
    /\ prev.cu_state.epoch_start_time # 0
    /\ cwin < prev.cwin
    /\ cu_state.epoch_start_time = 0

\* C5: an acknowledgement in congestion avoidance never lowers cwin (the
\* clock never goes back; no call of the run had a stream count of 0).
C5_AckNeverLowersCwnd ==
    (NotifiedIn(congestion_avoidance) /\ last.ev = Acknowledgement
        /\ ~undefinedSeen)
        => cwin >= prev.cwin

\* C6: an acknowledgement in congestion avoidance with
\* bytes_in_transit < cwin sets epoch_start_time = 0 and leaves cwin and
\* every other controller field as they were.
C6_ApplicationLimitedFreeze ==
    (/\ NotifiedIn(congestion_avoidance)
     /\ last.ev = Acknowledgement
     /\ last.bytes_in_transit < prev.cwin)
        => /\ cwin = prev.cwin
           /\ cu_state.epoch_start_time = 0
           /\ cu_state.alg_state = congestion_avoidance
           /\ cu_state.estimated_nr_cwnd = prev.cu_state.estimated_nr_cwnd
           /\ cu_state.last_max_cwnd = prev.cu_state.last_max_cwnd
           /\ cu_state.origin_cwnd = prev.cu_state.origin_cwnd
           /\ cu_state.time_of_origin = prev.cu_state.time_of_origin
           /\ cu_state.last_target_cwnd = prev.cu_state.last_target_cwnd

C6_Witness ==
    /\ NotifiedIn(congestion_avoidance)
    /\ last.ev = Acknowledgement
    /\ last.bytes_in_transit < prev.cwin
    /\ prev.cu_state.epoch_start_time # 0
    /\ prev.cu_state.last_target_cwnd # 0
    /\ cu_state.epoch_start_time = 0

\* C7: every Repeat or Timeout sets cwin to
\* max(PICOQUIC_CWIN_INITIAL, floor(Beta(n) * cwin)).
C7_LossCutWithFloor ==
    (Notified /\ last.ev \in LossEvents)
        => LET n == IF last.n = 0 THEN 1 ELSE last.n
           IN cwin = (IF ExactBetaFloor(prev.cwin, n) < PICOQUIC_CWIN_INITIAL
                      THEN PICOQUIC_CWIN_INITIAL
                      ELSE ExactBetaFloor(prev.cwin, n))

\* C8: the first loss, taken in slow start, switches to congestion
\* avoidance with no epoch running, records the cwin it found as
\* last_max_cwnd and, for one stream, leaves cwin = floor(0.7 * cwin); after
\* init and one acknowledgement of 1500 that is
\* last_max_cwnd = PICOQUIC_CWIN_INITIAL + 1500 and
\* cwin = floor(0.7 * (PICOQUIC_CWIN_INITIAL + 1500)).
C8_FirstLossFromSlowStart ==
    (NotifiedIn(slow_start) /\ last.ev \in LossEvents)
        => /\ cu_state.alg_state = congestion_avoidance
           /\ cu_state.epoch_start_time = 0
           /\ prev.cu_state.last_max_cwnd = 0
           /\ cu_state.last_max_cwnd = prev.cwin
           /\ (last.n = 1 /\ prev.cwin = PICOQUIC_CWIN_INITIAL + 1500
                => cwin = (7 * (PICOQUIC_CWIN_INITIAL + 1500)) \div 10)

C8_Witness ==
    /\ NotifiedIn(slow_start)
    /\ last.ev = Timeout
    /\ last.n = 1
    /\ nCalls = 3
    /\ prev.cwin = PICOQUIC_CWIN_INITIAL + 1500
    /\ cu_state.last_max_cwnd = PICOQUIC_CWIN_INITIAL + 1500
    /\ cwin = (7 * (PICOQUIC_CWIN_INITIAL + 1500)) \div 10

\* C9 as stated: on every Repeat or Timeout with n >= 1 streams,
\* last_max_cwnd becomes floor(BetaLastMax(n) * cwin) when
\* cwin + DEFAULT_TCP_MSS < last_max_cwnd and cwin otherwise, cwin being the
\* window before it is cut; with last_max_cwnd = 200000, cwin = 150000 and
\* one stream the loss leaves last_max_cwnd = 127500 and cwin = 105000.
C9_FastConvergence ==
    /\ (Notified /\ last.ev \in LossEvents /\ last.n >= 1)
        => cu_state.last_max_cwnd =
              (IF prev.cwin + DEFAULT_TCP_MSS < prev.cu_state.last_max_cwnd
               THEN ExactBetaLastMaxFloor(prev.cwin, last.n)
               ELSE prev.cwin)
    /\ LET r == picoquic_cubic_notify(
                    150000,
                    [InitialState EXCEPT !.alg_state = congestion_avoidance,
                                         !.last_max_cwnd = 200000],
                    Repeat, 1, 150000, 20000, NowInit, 0, CubeFactorValue, 0)
       IN r[1] = 105000 /\ r[2].last_max_cwnd = 127500

\* C9 amended: on every Repeat or Timeout with n >= 1 streams and a window
\* below 2^23 bytes, last_max_cwnd becomes the single-precision product
\* BetaLastMax(n) * cwin truncated, which is within one byte of
\* floor(BetaLastMax(n) * cwin), when cwin + DEFAULT_TCP_MSS < last_max_cwnd,
\* and cwin otherwise, cwin being the window before it is cut; with
\* last_max_cwnd = 200000, cwin = 150000 and one stream the loss leaves
\* last_max_cwnd = 127500 and cwin = 105000.
C9_FastConvergenceSinglePrecision ==
    /\ (Notified /\ last.ev \in LossEvents /\ last.n >= 1
                 /\ prev.cwin < 2^23)
        => IF prev.cwin + DEFAULT_TCP_MSS < prev.cu_state.last_max_cwnd
           THEN /\ cu_state.last_max_cwnd
                        >= ExactBetaLastMaxFloor(prev.cwin, last.n) - 1
                /\ cu_state.last_max_cwnd
                        <= ExactBetaLastMaxFloor(prev.cwin, last.n) + 1
           ELSE cu_state.last_max_cwnd = prev.cwin
    /\ LET r == picoquic_cubic_notify(
                    150000,
                    [InitialState EXCEPT !.alg_state = congestion_avoidance,
                                         !.last_max_cwnd = 200000],
                    Timeout, 1, 150000, 20000, NowInit, 0, CubeFactorValue, 0)
       IN r[1] = 105000 /\ r[2].last_max_cwnd = 127500

C9_Witness ==
    /\ Notified
    /\ last.ev \in LossEvents
    /\ last.n = 4
    /\ prev.cwin + DEFAULT_TCP_MSS < prev.cu_state.last_max_cwnd
    /\ cu_state.last_max_cwnd = ExactBetaLastMaxFloor(prev.cwin, 4) + 1
    /\ cu_state.last_max_cwnd > cwin

\* C10: after an init whose allocation succeeded the controller is in slow
\* start with every numeric field 0, the slot is not null and cwin is
\* PICOQUIC_CWIN_INITIAL, whatever cwin was before.
C10_InitResets ==
    (last.op = "init" /\ last.malloc_ok)
        => /\ cu_state # NULL
           /\ cu_state.alg_state = slow_start
           /\ cu_state.epoch_start_time = 0
           /\ cu_state.estimated_nr_cwnd = 0
           /\ cu_state.last_max_cwnd = 0
           /\ cu_state.time_of_origin = 0
           /\ cu_state.origin_cwnd = 0
           /\ cu_state.last_target_cwnd = 0
           /\ cwin = PICOQUIC_CWIN_INITIAL

C10_Witness ==
    /\ last.op = "init"
    /\ last.malloc_ok
    /\ prev.cwin # PICOQUIC_CWIN_INITIAL
    /\ prev.cu_state # NULL
    /\ cwin = PICOQUIC_CWIN_INITIAL

\* The last call was an acknowledgement that reached the cubic update
CubicAck ==
    /\ NotifiedIn(congestion_avoidance)
    /\ last.ev = Acknowledgement
    /\ last.bytes_in_transit >= prev.cwin

\* C11: an init whose allocation fails leaves the slot null and cwin as it
\* was, and a notify that finds a null slot, whatever its event and
\* arguments, leaves cwin and the slot unchanged.
C11_FailedInitAndNullSlot ==
    /\ (last.op = "init" /\ ~last.malloc_ok)
            => (cu_state = NULL /\ cwin = prev.cwin)
    /\ (last.op = "notify" /\ prev.cu_state = NULL)
            => (cu_state = NULL /\ cwin = prev.cwin)

C11_Witness ==
    /\ last.op = "notify"
    /\ last.ev = Acknowledgement
    /\ heap.failed
    /\ heap.allocated = 1
    /\ prev.cu_state = NULL
    /\ cu_state = NULL
    /\ cwin = prev.cwin
    /\ cwin > PICOQUIC_CWIN_INITIAL

\* C12: delete leaves the slot null and releases a record only when the
\* slot held one: a delete that finds a null slot releases nothing, so the
\* record of an init is released at most once.
C12_DeleteReleasesOnce ==
    last.op = "delete"
        => /\ cu_state = NULL
           /\ cwin = prev.cwin
           /\ heap.released = prev.heap.released
                                + (IF prev.cu_state # NULL THEN 1 ELSE 0)
           /\ heap.released <= heap.allocated

C12_Witness ==
    /\ last.op = "delete"
    /\ nCalls = 3
    /\ heap.allocated = 1
    /\ heap.released = 1
    /\ prev.cu_state = NULL
    /\ prev.heap.released = 1
    /\ cu_state = NULL

NoOpEvents == {SpuriousRepeat, RttMeasurement, Unknown}

\* C13: in slow start and in congestion avoidance, a SpuriousRepeat, an
\* RttMeasurement or an unknown notification leaves cwin and every
\* controller field unchanged; two SpuriousRepeat in a row delivered to any
\* reachable controller leave it as it was.
C13_NoOpEventsChangeNothing ==
    /\ (Notified /\ last.ev \in NoOpEvents)
            => (cwin = prev.cwin /\ cu_state = prev.cu_state)
    /\ cu_state # NULL
            => LET r1 == picoquic_cubic_notify(cwin, cu_state, SpuriousRepeat,
                             1, cwin, NowInit, now, 0, kCubeFactor, 0)
                   r2 == picoquic_cubic_notify(r1[1], r1[2], SpuriousRepeat,
                             1, r1[1], NowInit, now, 0, kCubeFactor, 0)
               IN r2 = <<cwin, cu_state>>

C13_Witness ==
    /\ NotifiedIn(congestion_avoidance)
    /\ last.ev = SpuriousRepeat
    /\ prev.cu_state.epoch_start_time # 0
    /\ prev.cwin < prev.cu_state.last_max_cwnd
    /\ cu_state = prev.cu_state
    /\ cwin = prev.cwin

\* C14: after an acknowledgement that reaches the cubic update, cwin is the
\* larger of last_target_cwnd and estimated_nr_cwnd as that acknowledgement
\* left them; it is estimated_nr_cwnd whenever the growth-limited target is
\* below it.
C14_CommitsMaxOfTargetAndEstimate ==
    CubicAck
        => /\ cwin = (IF cu_state.last_target_cwnd < cu_state.estimated_nr_cwnd
                      THEN cu_state.estimated_nr_cwnd
                      ELSE cu_state.last_target_cwnd)
           /\ cwin >= cu_state.last_target_cwnd
           /\ cwin >= cu_state.estimated_nr_cwnd

C14_Witness ==
    /\ CubicAck
    /\ last.n = 4
    /\ cu_state.last_target_cwnd < cu_state.estimated_nr_cwnd
    /\ cu_state.last_target_cwnd > prev.cwin
    /\ cwin = cu_state.estimated_nr_cwnd

\* C15: after an acknowledgement of a bytes that reaches the cubic update,
\* last_target_cwnd <= cwin before + floor(a / 2), and cwin exceeds that
\* limit only when it is estimated_nr_cwnd.
C15_GrowthLimitedTarget ==
    CubicAck
        => /\ cu_state.last_target_cwnd <= prev.cwin + last.acked \div 2
           /\ (cwin > prev.cwin + last.acked \div 2
                   => cwin = cu_state.estimated_nr_cwnd)

C15_Witness ==
    /\ CubicAck
    /\ last.n = 1
    /\ cu_state.last_target_cwnd = prev.cwin + last.acked \div 2
    /\ cu_state.estimated_nr_cwnd < cu_state.last_target_cwnd
    /\ cwin = prev.cwin + last.acked \div 2

\* C16: epoch_start_time becomes 0 only through a Repeat, a Timeout or an
\* application-limited acknowledgement (or init), and it is not 0 after an
\* acknowledgement that reaches the cubic update, whatever now and rtt_min
\* are.
C16_EpochZeroOnlyWhenIdle ==
    /\ (CubicAck /\ ~undefinedSeen) => cu_state.epoch_start_time # 0
    /\ (Notified /\ cu_state.epoch_start_time = 0
                 /\ prev.cu_state.epoch_start_time # 0)
            => \/ last.ev \in LossEvents
               \/ /\ last.ev = Acknowledgement
                  /\ prev.cu_state.alg_state = congestion_avoidance
                  /\ last.bytes_in_transit < prev.cwin

\* C17: a notify delivered with total_stream_count = 0 leaves cwin and the
\* controller as the same notify with a count of 1 would: the loss gives the
\* same last_max_cwnd and cwin, the acknowledgement the same
\* estimated_nr_cwnd and cwin.
C17_ZeroStreamCountAsOne ==
    (Notified /\ last.n = 0 /\ (last.ev \in LossEvents \/ CubicAck))
        => \E u \in UndefinedU64Set :
              <<cwin, cu_state>> =
                  picoquic_cubic_notify(prev.cwin, prev.cu_state, last.ev, 1,
                                        last.bytes_in_transit, last.rtt_min,
                                        now, last.acked, kCubeFactor, u)

\* The cubic delta of the last acknowledgement, which left the epoch, the
\* origin and the clock in the state
LastElapsed == ElapsedTime(now, cu_state.epoch_start_time)
LastDelta ==
    DeltaCongestionWindow(Abs(cu_state.time_of_origin - LastElapsed))

\* Before the origin of the curve the delta never exceeds origin_cwnd: the
\* subtraction of line 232 does not go below zero.
OriginCoversDelta ==
    (CubicAck /\ ~U64Gt(LastElapsed, cu_state.time_of_origin))
        => LastDelta <= cu_state.origin_cwnd

BeforeOriginReached ==
    /\ CubicAck
    /\ ~U64Gt(LastElapsed, cu_state.time_of_origin)
    /\ LastDelta > 0

\* C19: the elapsed time of every acknowledgement that reaches the cubic
\* update is ((now - epoch_start_time) << 10) / 1000000, the time since the
\* epoch start in units of 2^-10 s.
C19_ElapsedInScaledUnits ==
    (CubicAck /\ ~undefinedSeen)
        => LastElapsed
             = ((now - cu_state.epoch_start_time) * 2^10) \div MICROSEC_PER_SEC

\* 3 * n * n * (1 - Beta(n)) / (1 + Beta(n)) in single precision
AlphaOfPaper(n) ==
    LET beta == Beta(n)
    IN FDiv(FMul(FInt(3 * n * n), FSub(FInt(1), beta)), FAdd(FInt(1), beta))

\* C20: an acknowledgement of a bytes that reaches the cubic update adds
\* a * Alpha(n) * DEFAULT_TCP_MSS / estimated_nr_cwnd to estimated_nr_cwnd,
\* with Alpha(n) = 3 * n * n * (1 - Beta(n)) / (1 + Beta(n)).
C20_NewRenoIncrementUsesBeta ==
    (CubicAck /\ ~undefinedSeen)
        => LET est == IF prev.cu_state.epoch_start_time = 0
                      THEN prev.cwin
                      ELSE prev.cu_state.estimated_nr_cwnd
           IN est > 0
                => cu_state.estimated_nr_cwnd =
                     FToU64(FAdd(FInt(est),
                                 FDiv(FMul(FInt(last.acked),
                                           FMul(AlphaOfPaper(last.n),
                                                FInt(DEFAULT_TCP_MSS))),
                                      FInt(est))), 0)


\* C24: every controller record that was allocated is the one in the slot
\* or was released, and none was released twice: the records released are
\* the records allocated less the one the slot holds.
C24_NoLeakNoDoubleRelease ==
    /\ heap.released <= heap.allocated
    /\ heap.allocated - heap.released = (IF cu_state # NULL THEN 1 ELSE 0)

\* An acknowledgement that reaches the cubic update and finds no epoch
EpochStartAck == CubicAck /\ prev.cu_state.epoch_start_time = 0

\* The estimate an epoch start leaves once the acknowledgement that starts
\* it is counted: the New-Reno update of the window the acknowledgement found
ReanchoredEstimates ==
    {NewRenoUpdate(prev.cwin, last.acked, last.n, u) : u \in UndefinedU64Set}

\* C26: an acknowledgement in congestion avoidance with bytes_in_transit >=
\* cwin that finds epoch_start_time = 0 starts an epoch: epoch_start_time =
\* now - rtt_min, estimated_nr_cwnd restarts from the window it found, and
\* with last_max_cwnd <= cwin the origin is the window (K = 0, origin_cwnd =
\* cwin), otherwise origin_cwnd = last_max_cwnd and K is the integer cube
\* root of kCubeFactor * (last_max_cwnd - cwin).
C26_EpochStart ==
    EpochStartAck
        => LET cw == prev.cwin
               lm == prev.cu_state.last_max_cwnd
               K  == cu_state.time_of_origin
               P  == MulSmall(ToLimbs(CubeFactorValue), lm - cw)
           IN /\ cu_state.epoch_start_time = now - last.rtt_min
              /\ cu_state.estimated_nr_cwnd \in ReanchoredEstimates
              /\ IF lm <= cw
                 THEN K = 0 /\ cu_state.origin_cwnd = cw
                 ELSE /\ cu_state.origin_cwnd = lm
                      /\ LimbsLeq(Cube(K), P)
                      /\ ~LimbsLeq(Cube(K + 1), P)

C26_Witness ==
    /\ EpochStartAck
    /\ ~undefinedSeen
    /\ prev.cu_state.last_max_cwnd > prev.cwin
    /\ prev.cu_state.estimated_nr_cwnd # prev.cwin
    /\ cu_state.time_of_origin > 0
    /\ cu_state.origin_cwnd = prev.cu_state.last_max_cwnd
    /\ cu_state.epoch_start_time = now - 20000

\* The fields that place the cubic curve
CurveOf(cu) ==
    <<cu.epoch_start_time, cu.time_of_origin, cu.origin_cwnd, cu.last_max_cwnd>>

\* C27: a cubic update that follows another one of the same epoch (no loss
\* and no application-limited acknowledgement in between) leaves
\* epoch_start_time, time_of_origin, origin_cwnd and last_max_cwnd as they
\* were.
C27_CurveFixedWithinEpoch ==
    (CubicAck /\ epochAcks = 2 /\ ~undefinedSeen)
        => CurveOf(cu_state) = CurveOf(prev.cu_state)

\* C29: in congestion avoidance with an epoch running (epoch_start_time #
\* 0), cwin >= estimated_nr_cwnd.
C29_WindowCoversEstimate ==
    (InCongestionAvoidance /\ cu_state.epoch_start_time # 0)
        => cwin >= cu_state.estimated_nr_cwnd

C29_Witness ==
    /\ InCongestionAvoidance
    /\ cu_state.epoch_start_time # 0
    /\ ~undefinedSeen
    /\ last.op = "notify" /\ last.ev = RttMeasurement
    /\ cwin = cu_state.estimated_nr_cwnd
    /\ cwin > cu_state.last_target_cwnd
    /\ cwin > prev.cu_state.last_max_cwnd

\* The value of estimated_nr_cwnd that the New-Reno update of the last
\* acknowledgement divided by (line 249): the window when the
\* acknowledgement started an epoch, the stored estimate otherwise
LastDivisor ==
    IF prev.cu_state.epoch_start_time = 0 THEN prev.cwin
    ELSE prev.cu_state.estimated_nr_cwnd

\* C30: whenever process_ack divides by estimated_nr_cwnd, the divisor is
\* greater than 0, whatever run of consecutive timeouts came before.
C30_DivisorPositive ==
    (CubicAck /\ last.n >= 1) => LastDivisor > 0

\* a <= b and a < b on finite float values
FLeq(a, b) ==
    IF a[1] = 0 THEN TRUE
    ELSE IF b[1] = 0 THEN FALSE
    ELSE a[2] < b[2] \/ (a[2] = b[2] /\ a[1] <= b[1])
FLess(a, b) == FLeq(a, b) /\ a # b

\* 1.0f
FOne == FInt(1)

ScalingInRange ==
    /\ FLeq(kBeta, scaling.beta) /\ FLess(scaling.beta, FOne)
    /\ FLeq(kBetaLastMax, scaling.betaLastMax)
    /\ FLess(scaling.betaLastMax, FOne)
    /\ total_stream_count = 1
            => scaling.beta = kBeta /\ scaling.betaLastMax = kBetaLastMax

\* C21: for every stream count n >= 1 of the range, 0.7 <= Beta(n) < 1 and
\* 0.85 <= BetaLastMax(n) < 1, Beta(1) = 0.7, BetaLastMax(1) = 0.85, and
\* Beta(n) <= Beta(n+1), BetaLastMax(n) <= BetaLastMax(n+1); 0.7 and 0.85
\* are the constants kBeta and kBetaLastMax of the code.
C21_ScalingFactors ==
    scaling.computed
        => /\ ScalingInRange
           /\ FLeq(scaling.beta, scaling.betaNext)
           /\ FLeq(scaling.betaLastMax, scaling.betaLastMaxNext)

\* C21, as the single-precision quotients behave: the bounds and the values
\* at 1 hold over the whole range and Beta is non-decreasing over it;
\* BetaLastMax(n) <= BetaLastMax(n+1) holds for n < 8192, and
\* BetaLastMax(8193) is one unit in the last place below BetaLastMax(8192).
C21_ScalingFactorsSinglePrecision ==
    scaling.computed
        => /\ ScalingInRange
           /\ FLeq(scaling.beta, scaling.betaNext)
           /\ total_stream_count < 8192
                  => FLeq(scaling.betaLastMax, scaling.betaLastMaxNext)
           /\ total_stream_count = 8192
                  => scaling.betaLastMaxNext
                        = <<scaling.betaLastMax[1] - 1, scaling.betaLastMax[2]>>

C21_Witness ==
    /\ scaling.computed
    /\ total_stream_count = 4
    /\ scaling.beta = <<15518925, -24>>          \* 0.925f
    /\ scaling.betaLastMax = <<16148070, -24>>   \* 0.9625f
    /\ FLess(scaling.beta, scaling.betaNext)
    /\ FLess(scaling.betaLastMax, scaling.betaLastMaxNext)

\* The test numbers of the names of a list that are in the table, in the
\* order of the list
RECURSIVE ValidTests(_)
ValidTests(names) ==
    IF names = <<>> THEN <<>>
    ELSE LET number == get_test_number(Head(names))
         IN IF number < 0 THEN ValidTests(Tail(names))
            ELSE <<number>> \o ValidTests(Tail(names))

NoRepeats(names) ==
    \A i, j \in DOMAIN names : i # j => names[i] # names[j]

\* C25: when main() returns from a run with a list of distinct test names,
\* the tests executed are the valid names of the list, each once and in the
\* order of the command line, and nb_test_tried is their number.
C25_RunsEveryNamedTest ==
    (mainPc = "done" /\ NoRepeats(argv))
        => /\ executed = ValidTests(argv)
           /\ nb_test_tried = Len(ValidTests(argv))

\* C22: the relay never blocks or changes the controller: an init that
\* has been entered can always go on to its return, whatever the relay
\* does, and an init that returned with its record allocated left the
\* initial window and the initial controller state.
C22_InitReturnsWhateverTheRelay ==
    /\ (caller = "init" /\ telPc # "idle") => ENABLED NextRelay
    /\ (caller = "init" /\ telPc = "idle" /\ last.malloc_ok)
            => cwin = PICOQUIC_CWIN_INITIAL /\ cu_state = InitialState

BeginsWithKO(str) == Len(str) >= 2 /\ str[1] = "K" /\ str[2] = "O"

\* C28: a command that has returned gave a string beginning with KO when
\* the send or the receive failed, and otherwise the reply of the relay as
\* the relay sent it.
C28_CommandsReturnKoOrReply ==
    (caller \in CommandSet /\ telPc = "idle")
        => IF error # "none" THEN BeginsWithKO(result)
           ELSE result = CString(datagram)

\* C23: whatever the interleaving of the init, notify and delete calls on
\* two paths, each path has the cwin and the controller state it has when
\* its calls run alone, and the kCubeFactor a path with a controller reads
\* is the one its own init stored: no call on the other path changes it.
C23_PathsIndependent ==
    \A p \in PathIds :
        /\ paths[p].cwin = alone[p].cwin
        /\ paths[p].cu_state = alone[p].cu_state
        /\ paths[p].cu_state # NULL => kCubeFactor = alone[p].kCubeFactor

C23_Witness ==
    /\ foreignRead
    /\ factorWriter = 2
    /\ paths[1].cu_state # NULL
    /\ paths[1].cu_state.time_of_origin > 0
    /\ paths[1].cwin # paths[2].cwin

\* C31: right after a Repeat or a Timeout with n >= 1, from either state,
\* cwin <= last_max_cwnd <= cwin before the event; and the origin_cwnd an
\* epoch start chooses is at least the cwin it finds.
C31_LossOrdersWindowAndLastMax ==
    /\ (Notified /\ last.ev \in LossEvents /\ last.n >= 1)
            => /\ cwin <= cu_state.last_max_cwnd
               /\ cu_state.last_max_cwnd <= prev.cwin
    /\ EpochStartAck => cu_state.origin_cwnd >= prev.cwin

C31_Witness ==
    /\ Notified
    /\ last.ev \in LossEvents
    /\ last.n = 4
    /\ ~undefinedSeen
    /\ prev.cwin + DEFAULT_TCP_MSS < prev.cu_state.last_max_cwnd
    /\ cwin < cu_state.last_max_cwnd
    /\ cu_state.last_max_cwnd < prev.cwin

BeginsWithOK(str) == Len(str) >= 2 /\ str[1] = "O" /\ str[2] = "K"

\* C32: when register_collect has returned false, rstats_connection_id is
\* 0, also after an earlier registration that stored another id; when it
\* has returned true, the reply of the relay began with OK.
C32_FalseResetsConnectionId ==
    (caller = "init" /\ telPc = "registered")
        => IF registered
           THEN error = "none" /\ BeginsWithOK(datagram)
           ELSE rstats_connection_id = 0

=============================================================================
